---- MODULE Spec2Model ----
(***************************************************************************)
(* A model of kpmcore's DeleteOperation (src/src/ops/deleteoperation.cpp)  *)
(* acting on the partition tree that LibPartedBackend::scanDevicePartitions*)
(* (src/src/plugins/libparted/libpartedbackend.cpp) builds for one device. *)
(*                                                                         *)
(* The Partition / PartitionNode / PartitionTable / Operation classes and  *)
(* the operation stack are not part of the source files at hand; what the  *)
(* model needs of them is written from the specification (sections 3, 4.1, *)
(* 4.4, 4.5) and is marked as such where it is defined.                    *)
(*                                                                         *)
(* The scan is also followed record by record, with what libparted, the    *)
(* mount table and the filesystems (src/src/fs/ext2.cpp) may answer for a  *)
(* partition, and MovePhysicalVolumeJob::run                               *)
(* (src/src/jobs/movephysicalvolumejob.cpp) step by step.                  *)
(***************************************************************************)
EXTENDS Integers, Sequences, FiniteSets, TLC

VARIABLES
    part,       \* the Partition objects: id -> fields (number() is mutable)
    children,   \* PartitionNode::children(): container id -> sequence of nodes
    ops,        \* the operations, oldest first; the last one may be unpushed
    applying,   \* TRUE while the stack's apply pass is running
    undone,     \* the operation the last step undid, with the tree as it was
                \* before that operation's preview(); <<>> after any other step
    device,     \* what the jobs have done to the device: <<partition, job>>
    freed,      \* how many times each Partition object was deleted
    scan,       \* scanDevicePartitions at work: its input, position, result
    mv          \* MovePhysicalVolumeJob::run at work

vars == <<part, children, ops, applying, undone, device, freed, scan, mv>>

\* what the operations on the partition tree leave alone
aside == <<scan, mv>>

-----------------------------------------------------------------------------
(* Bounds of the model *)

\* how many Logical partitions the scanned Extended partition may hold
MaxLogicals == 3

\* how many DeleteOperations may exist at a time when operations are run
MaxOps == 2

\* how many DeleteOperations may exist at a time when they are only previewed
\* and undone
MaxPreviews == 3

\* how many physical volumes a MovePhysicalVolumeJob may be given to move
MaxPartList == 2

(* The device of the specification's scenario (section 8) *)

\* PartitionTable::firstUsable(), as the backend reports it
firstUsableSector == 2048

\* PartitionTable::lastUsable(), as the backend reports it
lastUsableSector == 1000000

\* the number of the first Logical partition (sda5)
FirstLogicalNumber == 5

\* the partition table itself as a container of children
Root == 0

\* the ids of the Partition objects a scan may create
PrimaryA == 1
ExtId == 2
PrimaryB == 3
LogId(i) == 3 + i

PartIds == 1 .. (3 + MaxLogicals)

\* PartitionRole::Roles
Roles == {"Primary", "Extended", "Logical", "Unallocated", "Luks"}

\* Operation::OperationStatus
Statuses == {"None", "Pending", "Running", "Success", "Warning", "Error"}

\* DeleteOperation::ShredAction
ShredActions == {"NoShred", "ZeroShred", "RandomShred"}

-----------------------------------------------------------------------------
(* The raw partition records the backend hands to the scan *)

\* the sector range of each record: the Extended partition and its first two
\* Logicals are those of the specification's scenario
geomFirst(id) ==
    CASE id = PrimaryA -> 2048
      [] id = ExtId    -> 100000
      [] id = PrimaryB -> 600000
      [] id = LogId(1) -> 100000
      [] OTHER         -> (id - 4) * 100000 + 100001

geomLast(id) ==
    CASE id = PrimaryA -> 50000
      [] id = ExtId    -> 500000
      [] id = PrimaryB -> 800000
      [] OTHER         -> (id - 2) * 100000

pedType(id) ==
    CASE id = ExtId -> "PED_PARTITION_EXTENDED"
      [] id \in {PrimaryA, PrimaryB} -> "PED_PARTITION_NORMAL"
      [] OTHER -> "PED_PARTITION_LOGICAL"

\* dumpe2fs that did not run; a count it does not print is -1
noOutput == [ran |-> FALSE, blockCount |-> -1, freeBlocks |-> -1, blockSize |-> -1]

\* what the backend and the mount table say about one partition
Flavours == {"plain", "busy", "luksClosed", "luksOpen", "luksOpenMounted", "luksRoleOnly"}

\* one raw record: num is the number libparted gives the partition, flavour
\* selects the state of its filesystem, its mapper device and its mounts
rawRecord(id, num, flavour) ==
    [ id            |-> id,
      num           |-> num,
      type          |-> pedType(id),
      start         |-> geomFirst(id),
      end           |-> geomLast(id),
      fsType        |-> IF flavour \in {"luksClosed", "luksOpen", "luksOpenMounted"}
                        THEN "Luks" ELSE "Other",
      mapperOpen    |-> flavour \in {"luksOpen", "luksOpenMounted"},
      mapperMounted |-> flavour = "luksOpenMounted",
      busy          |-> flavour = "busy",
      luksRole      |-> flavour \in {"luksClosed", "luksOpen", "luksOpenMounted",
                                     "luksRoleOnly"},
      \* the mount table's entry for the partition's node and for its mapper
      \* device ("" when it has none), and the statistics of that mount
      rawMountPoint    |-> "",
      mapperMountPoint |-> "",
      statValid        |-> FALSE,
      statUsed         |-> 0,
      \* the filesystem's supportGetUsed(), what dumpe2fs -h prints for it,
      \* what another filesystem's readUsedCapacity returns, and what
      \* libparted's resize constraint says
      getUsed          |-> "cmdSupportNone",
      dumpe2fs         |-> noOutput,
      capUsed          |-> -1,
      coreUsed         |-> -1,
      fsResizeLibrary  |-> FALSE,
      \* libparted's ped_partition_is_flag_available and ped_partition_get_flag
      pedAvailable     |-> {},
      pedSet           |-> {} ]

-----------------------------------------------------------------------------
(* The partition tree (PartitionNode, PartitionTable, Partition) *)

\* a node of a children list: id = Root marks a synthesized Unallocated node
realNode(t, p) == [id |-> p, first |-> t.part[p].first, last |-> t.part[p].last]

unallocatedNode(first, last) == [id |-> Root, first |-> first, last |-> last]

isUnallocated(n) == n.id = Root

\* Partition::roles() of a node
rolesOf(t, n) == IF isUnallocated(n) THEN {"Unallocated"} ELSE t.part[n.id].roles

\* the containers whose children lists the tree walks: the table and every
\* Extended partition that is a child of the table
inTree(t, p) == \E i \in 1 .. Len(t.children[Root]) : t.children[Root][i].id = p

containers(t) == {Root} \cup {c \in DOMAIN t.children \ {Root} : inTree(t, c)}

\* every node the tree holds, with the container it is a child of
treeNodes(t) ==
    UNION {{<<c, t.children[c][i]>> : i \in 1 .. Len(t.children[c])} : c \in containers(t)}

\* the real partitions the tree holds
treeParts(t) == {cn[2].id : cn \in {x \in treeNodes(t) : ~isUnallocated(x[2])}}

\* PartitionTable::findPartitionBySector(s, PartitionRole(Extended)): the
\* Extended partition of the tree whose range contains s, or Root (nullptr)
findPartitionBySector(t, s) ==
    LET hits == {p \in treeParts(t) : /\ "Extended" \in t.part[p].roles
                                      /\ t.part[p].first <= s
                                      /\ s <= t.part[p].last}
    IN IF hits = {} THEN Root ELSE CHOOSE p \in hits : TRUE

\* PartitionNode::append
append(t, parent, p) ==
    [t EXCEPT !.children[parent] = Append(@, realNode(t, p))]

\* PartitionNode::remove
remove(t, parent, p) ==
    [t EXCEPT !.children[parent] = SelectSeq(@, LAMBDA n : n.id # p)]

\* PartitionNode::insert: before the first child that starts after p
insert(t, parent, p) ==
    LET ch  == t.children[parent]
        pos == IF \E i \in 1 .. Len(ch) : ch[i].first > t.part[p].first
               THEN CHOOSE i \in 1 .. Len(ch) :
                        /\ ch[i].first > t.part[p].first
                        /\ \A j \in 1 .. (i - 1) : ch[j].first <= t.part[p].first
               ELSE Len(ch) + 1
    IN [t EXCEPT !.children[parent] =
            SubSeq(ch, 1, pos - 1) \o <<realNode(t, p)>> \o SubSeq(ch, pos, Len(ch))]

\* PartitionTable::removeUnallocated on one children list
removeUnallocated(ch) == SelectSeq(ch, LAMBDA n : ~isUnallocated(n))

\* PartitionTable::insertUnallocated on one children list: an Unallocated node
\* for every gap before, between and after the children within [lo, hi]
RECURSIVE insertUnallocated(_, _, _, _)
insertUnallocated(ch, i, lo, hi) ==
    IF i > Len(ch)
    THEN IF lo <= hi THEN <<unallocatedNode(lo, hi)>> ELSE <<>>
    ELSE (IF ch[i].first > lo THEN <<unallocatedNode(lo, ch[i].first - 1)>> ELSE <<>>)
         \o <<ch[i]>> \o insertUnallocated(ch, i + 1, ch[i].last + 1, hi)

\* PartitionTable::updateUnallocated: removeUnallocated, then insertUnallocated,
\* on the table and on every Extended partition in it
updateUnallocated(t) ==
    [t EXCEPT !.children =
        [c \in DOMAIN t.children |->
            IF c = Root
            THEN insertUnallocated(removeUnallocated(t.children[c]), 1,
                                   firstUsableSector, lastUsableSector)
            ELSE IF inTree(t, c)
            THEN insertUnallocated(removeUnallocated(t.children[c]), 1,
                                   t.part[c].first, t.part[c].last)
            ELSE t.children[c]]]

\* Partition::adjustLogicalNumbers on an Extended partition, with the two
\* arguments DeleteOperation::checkAdjustLogicalNumbers passes (-1 for "none"):
\* with a deleted number, every Logical child at or beyond it moves down by
\* one; with an inserted number, every Logical child at or beyond it moves up
\* by one
adjustLogicalNumbers(t, ext, deletedNumber, insertedNumber) ==
    LET kids == {t.children[ext][i].id : i \in 1 .. Len(t.children[ext])} \ {Root}
    IN [t EXCEPT !.part =
           [p \in DOMAIN t.part |->
               IF p \notin kids THEN t.part[p]
               ELSE IF deletedNumber > 0 /\ t.part[p].number >= deletedNumber
               THEN [t.part[p] EXCEPT !.number = @ - 1]
               ELSE IF insertedNumber > 0 /\ t.part[p].number >= insertedNumber
               THEN [t.part[p] EXCEPT !.number = @ + 1]
               ELSE t.part[p]]]

\* Operation::removePreviewPartition
removePreviewPartition(t, p) ==
    IF \E i \in 1 .. Len(t.children[t.part[p].parent]) :
           t.children[t.part[p].parent][i].id = p
    THEN updateUnallocated(remove(t, t.part[p].parent, p))
    ELSE t

\* Operation::insertPreviewPartition
insertPreviewPartition(t, p) ==
    LET bare == [t EXCEPT !.children =
                    [c \in DOMAIN t.children |->
                        IF c \in containers(t) THEN removeUnallocated(t.children[c])
                        ELSE t.children[c]]]
    IN updateUnallocated(insert(bare, t.part[p].parent, p))

-----------------------------------------------------------------------------
(* LibPartedBackend::scanDevicePartitions *)

\* the logical sector size of the device, in bytes
logicalSectorSize == 512

\* integer division as the compiler does it: the quotient is truncated
\* towards zero
quotient(a, b) == IF a >= 0 THEN a \div b ELSE -((-a) \div b)

\* the entries of flagmap the model follows
flagmap == {"FlagBoot", "FlagHidden"}

\* activeFlags(pedPartition)
activeFlags(rec) ==
    IF rec.num <= 0 THEN {}
    ELSE {f \in flagmap : f \in rec.pedAvailable /\ f \in rec.pedSet}

\* availableFlags(pedPartition): Hidden is left out for an Extended partition
availableFlags(rec) ==
    IF rec.num <= 0 THEN {}
    ELSE {f \in flagmap :
            /\ f \in rec.pedAvailable
            /\ rec.type # "PED_PARTITION_EXTENDED" \/ f # "FlagHidden"}

\* ext2::readUsedCapacity, from what dumpe2fs -h printed
ext2ReadUsedCapacity(out) ==
    IF /\ out.ran
       /\ out.blockCount > -1
       /\ out.freeBlocks > -1
       /\ out.blockSize > -1
    THEN (out.blockCount - out.freeBlocks) * out.blockSize
    ELSE -1

\* FileSystem::readUsedCapacity(deviceNode) of the record's filesystem
readUsedCapacity(rec) ==
    IF rec.fsType = "Ext2" THEN ext2ReadUsedCapacity(rec.dumpe2fs) ELSE rec.capUsed

\* readSectorsUsed: what it stores as the filesystem's sectorsUsed (-1, the
\* value the filesystem is created with, when it stores nothing), and the
\* device the value was read from: the one the mount point belongs to, or
\* the partition's own node (p.deviceNode())
readSectorsUsed(rec, mounted, mountPoint, mountPointOf) ==
    IF mounted /\ rec.statValid /\ mountPoint # ""
    THEN [sectorsUsed |-> quotient(rec.statUsed, logicalSectorSize),
          usedOf      |-> mountPointOf]
    ELSE IF rec.getUsed = "cmdSupportFileSystem"
    THEN [sectorsUsed |-> quotient(readUsedCapacity(rec), logicalSectorSize),
          usedOf      |-> "node"]
    ELSE IF rec.fsResizeLibrary /\ rec.getUsed = "cmdSupportCore"
    THEN [sectorsUsed |-> rec.coreUsed, usedOf |-> "node"]
    ELSE [sectorsUsed |-> -1, usedOf |-> ""]

\* the Partition the scan creates from one record: role from the record's
\* type, mount point and mount state through the mapper device for a Luks
\* filesystem.  mountedOf, mountPointOf and usedOf are no fields of the
\* class: they record which device ("node" for the partition's own node,
\* "mapper" for the mapper device, "" for none) the value was read from
scannedPartition(rec, parent) ==
    LET fsType      == IF rec.type = "PED_PARTITION_EXTENDED" THEN "Extended"
                       ELSE rec.fsType
        isLuks      == fsType = "Luks"
        isCryptOpen == isLuks /\ rec.mapperOpen
        mountPoint  == IF isLuks
                       THEN (IF isCryptOpen THEN rec.mapperMountPoint ELSE "")
                       ELSE rec.rawMountPoint
        mounted     == IF isLuks
                       THEN (IF isCryptOpen THEN rec.mapperMounted ELSE FALSE)
                       ELSE rec.busy
        readFrom    == IF isLuks THEN (IF isCryptOpen THEN "mapper" ELSE "")
                       ELSE "node"
        used        == readSectorsUsed(rec, mounted, mountPoint, readFrom)
    IN [ roles       |-> CASE rec.type = "PED_PARTITION_NORMAL"   -> {"Primary"}
                           [] rec.type = "PED_PARTITION_EXTENDED" -> {"Extended"}
                           [] OTHER                               -> {"Logical"},
         first       |-> rec.start,
         last        |-> rec.end,
         parent      |-> parent,
         number      |-> rec.num,
         mounted     |-> mounted,
         fsType      |-> fsType,
         cryptOpen   |-> isCryptOpen,
         luksMounted |-> isLuks /\ mounted,
         innerLoaded |-> isCryptOpen,
         mountPoint     |-> mountPoint,
         mountedOf      |-> readFrom,
         mountPointOf   |-> readFrom,
         sectorsUsed    |-> used.sectorsUsed,
         usedOf         |-> used.usedOf,
         availableFlags |-> availableFlags(rec),
         activeFlags    |-> activeFlags(rec) ]

\* the table before the scan: no Partition, no child
emptyTable == [part |-> <<>>, children |-> (Root :> <<>>)]

\* the switch on the record's type that skips all but the normal kind
representedNormalOnly(rec) ==
    /\ rec.num >= 1
    /\ rec.type = "PED_PARTITION_NORMAL"

\* the records the loop does not skip: those with a partition number, of
\* the normal, extended or logical kind
represented(rec) ==
    /\ rec.num >= 1
    /\ rec.type \in {"PED_PARTITION_NORMAL", "PED_PARTITION_EXTENDED",
                      "PED_PARTITION_LOGICAL"}

\* the body of the loop, for one record
scanRecord(t, rec) ==
    IF ~represented(rec) THEN t
    ELSE LET parent == findPartitionBySector(t, rec.start)
             made   == [ part     |-> (rec.id :> scannedPartition(rec, parent)) @@ t.part,
                         children |-> IF rec.type = "PED_PARTITION_EXTENDED"
                                      THEN (rec.id :> <<>>) @@ t.children
                                      ELSE t.children ]
         IN append(made, parent, rec.id)

\* the loop over the backend's records, in the backend's order
RECURSIVE scanLoop(_, _, _)
scanLoop(t, recs, i) ==
    IF i > Len(recs) THEN t
    ELSE scanLoop(scanRecord(t, recs[i]), recs, i + 1)

\* the scan without its call of updateUnallocated
scanDevicePartitionsNoUpdate(recs) == scanLoop(emptyTable, recs, 1)

scanDevicePartitions(recs) == updateUnallocated(scanLoop(emptyTable, recs, 1))

\* roles combine (Logical + Luks, Primary + Luks): the Luks role on the
\* partitions in S
withLuksRole(t, S) ==
    [t EXCEPT !.part = [p \in DOMAIN t.part |->
        IF p \in S THEN [t.part[p] EXCEPT !.roles = @ \cup {"Luks"}] ELSE t.part[p]]]

-----------------------------------------------------------------------------
(* DeleteOperation *)

\* jobList with the two addJob calls exchanged
jobListSwapped(shred) ==
    << "DeletePartitionJob",
       CASE shred = "NoShred"   -> "DeleteFileSystemJob"
         [] shred = "ZeroShred" -> "ShredFileSystemJob(zero)"
         [] OTHER               -> "ShredFileSystemJob(random)" >>

\* the jobs the constructor adds, in addJob order
jobList(shred) ==
    << CASE shred = "NoShred"   -> "DeleteFileSystemJob"
         [] shred = "ZeroShred" -> "ShredFileSystemJob(zero)"
         [] OTHER               -> "ShredFileSystemJob(random)",
       "DeletePartitionJob" >>

\* DeleteOperation::DeleteOperation(d, p, shred); Operation() starts at
\* StatusNone with no job run.  before is no field of the class: it records
\* the tree as it was when preview() was called
DeleteOperation(p, shred) ==
    [ deletedPartition |-> p,
      shredAction      |-> shred,
      status           |-> "None",
      jobs             |-> jobList(shred),
      jobState         |-> [j \in 1 .. Len(jobList(shred)) |-> "idle"],
      before           |-> <<>>,
      report           |-> "",
      destroyed        |-> FALSE ]

\* checkAdjustLogicalNumbers that never renumbers
checkAdjustLogicalNumbersSkipped(t, p, undo) == t

\* DeleteOperation::checkAdjustLogicalNumbers
checkAdjustLogicalNumbers(t, p, undo) ==
    LET parentPartition == t.part[p].parent
    IN IF parentPartition # Root /\ "Extended" \in t.part[parentPartition].roles
       THEN adjustLogicalNumbers(t, parentPartition,
                                 IF undo THEN -1 ELSE t.part[p].number,
                                 IF undo THEN t.part[p].number ELSE -1)
       ELSE t

\* preview that renumbers and leaves the partition in the tree
previewNoRemove(t, p) == checkAdjustLogicalNumbers(t, p, FALSE)

\* preview that removes the partition and does not renumber
previewNoRenumber(t, p) == removePreviewPartition(t, p)

\* DeleteOperation::preview
preview(t, p) ==
    checkAdjustLogicalNumbers(removePreviewPartition(t, p), p, FALSE)

\* undo that renumbers as preview does (undo = false)
undoAsPreview(t, p) ==
    insertPreviewPartition(checkAdjustLogicalNumbers(t, p, FALSE), p)

\* DeleteOperation::undo
undo(t, p) ==
    insertPreviewPartition(checkAdjustLogicalNumbers(t, p, TRUE), p)

\* canDelete without its isMounted() test
canDeleteMounted(t, n) ==
    IF "Unallocated" \in rolesOf(t, n) THEN FALSE
    ELSE IF "Extended" \in rolesOf(t, n)
    THEN /\ Len(t.children[n.id]) = 1
         /\ "Unallocated" \in rolesOf(t, t.children[n.id][1])
    ELSE IF "Luks" \in rolesOf(t, n)
    THEN IF t.part[n.id].fsType # "Luks" THEN FALSE
         ELSE IF t.part[n.id].cryptOpen \/ t.part[n.id].luksMounted THEN FALSE
         ELSE TRUE
    ELSE TRUE

\* DeleteOperation::canDelete for a (non-null) node n of the tree
canDelete(t, n) ==
    IF ~isUnallocated(n) /\ t.part[n.id].mounted THEN FALSE
    ELSE IF "Unallocated" \in rolesOf(t, n) THEN FALSE
    ELSE IF "Extended" \in rolesOf(t, n)
    THEN /\ Len(t.children[n.id]) = 1
         /\ "Unallocated" \in rolesOf(t, t.children[n.id][1])
    ELSE IF "Luks" \in rolesOf(t, n)
    THEN IF t.part[n.id].fsType # "Luks" THEN FALSE
         ELSE IF t.part[n.id].cryptOpen \/ t.part[n.id].luksMounted THEN FALSE
         ELSE TRUE
    ELSE TRUE

-----------------------------------------------------------------------------
(* The state of the program *)

\* the tree as the operators above take it
T == [part |-> part, children |-> children]

\* the orders in which libparted may number the Logicals that are present:
\* order[k] is the Logical slot that carries number FirstLogicalNumber + k - 1
LogicalOrders ==
    UNION {{o \in [1 .. k -> 1 .. MaxLogicals] :
                \A a, b \in 1 .. k : a # b => o[a] # o[b]} : k \in 0 .. MaxLogicals}

\* the records of one device, in the order ped_disk_next_partition yields
\* them: by start sector, the Extended partition before its Logicals
deviceRecords(tops, order, special, flavour) ==
    LET slotOf == [k \in 1 .. Len(order) |-> LogId(order[k])]
        logs   == {slotOf[k] : k \in 1 .. Len(order)}
        all    == <<PrimaryA, ExtId>> \o [i \in 1 .. MaxLogicals |-> LogId(i)]
                  \o <<PrimaryB>>
        here   == SelectSeq(all, LAMBDA id : id \in tops \cup logs)
        numOf(id) == IF id \in logs
                     THEN FirstLogicalNumber - 1
                          + (CHOOSE k \in 1 .. Len(order) : slotOf[k] = id)
                     ELSE id
    IN [i \in 1 .. Len(here) |->
           rawRecord(here[i], numOf(here[i]),
                     IF here[i] = special THEN flavour ELSE "plain")]

\* one device: which top-level partitions exist (tops), how the Logicals
\* are numbered (order), and which partition, if any, is not a plain
\* unmounted one (special, flavour).  Every device of plain partitions the
\* slots allow:
PlainLayouts ==
    {l \in [tops : SUBSET {PrimaryA, ExtId, PrimaryB}, order : LogicalOrders,
            special : {Root}, flavour : {"plain"}] :
        l.order # <<>> => ExtId \in l.tops}

\* the device of the scenario (an Extended partition with Logicals 5 and 6),
\* with or without a Primary before it, one partition of which is busy or Luks
FlavouredLayouts ==
    {l \in [tops : {{ExtId}, {PrimaryA, ExtId}}, order : {<<1, 2>>},
            special : {PrimaryA, LogId(1), LogId(2)},
            flavour : Flavours \ {"plain"}] :
        l.special \in l.tops \cup {LogId(1), LogId(2)}}

\* the devices on which operations are also run
RunLayouts ==
    {l \in PlainLayouts : PrimaryB \notin l.tops /\ l.order \in {<<1>>, <<1, 2>>}}
    \cup FlavouredLayouts

\* the tree of a device after the scan
scanned(l) ==
    withLuksRole(
        scanDevicePartitions(deviceRecords(l.tops, l.order, l.special, l.flavour)),
        IF l.flavour \in {"plain", "busy"} THEN {} ELSE {l.special})

\* no scan is at work
scanIdle == [recs |-> <<>>, pos |-> 0, partitions |-> <<>>, done |-> TRUE]

\* no MovePhysicalVolumeJob is at work
mvIdle == [pc |-> "idle"]

InitWith(layouts) ==
    \E l \in layouts :
        /\ part = scanned(l).part
        /\ children = scanned(l).children
        /\ ops = <<>>
        /\ applying = FALSE
        /\ undone = <<>>
        /\ device = {}
        /\ freed = [p \in PartIds |-> 0]
        /\ scan = scanIdle
        /\ mv = mvIdle

Init == InitWith(RunLayouts)

InitTree == InitWith(PlainLayouts \cup FlavouredLayouts)

-----------------------------------------------------------------------------
(* Operation and the operation stack *)

lastOp == ops[Len(ops)]

\* an operation that was constructed and is not pushed yet
unpushed == ops # <<>> /\ lastOp.status = "None"

\* a stack that undoes whatever was pushed
canUndoCommitted(op) == op.status # "None"

\* the stack undoes uncommitted operations only, last first
canUndo(op) == op.status = "Pending"

\* run() that goes on after a failed job
nextJobAfterFailure(op) ==
    IF \E j \in 1 .. Len(op.jobs) : op.jobState[j] = "running"
    THEN 0
    ELSE IF \A j \in 1 .. Len(op.jobs) : op.jobState[j] # "idle"
    THEN 0
    ELSE CHOOSE j \in 1 .. Len(op.jobs) :
             /\ op.jobState[j] = "idle"
             /\ \A i \in 1 .. (j - 1) : op.jobState[i] # "idle"

\* run(): the job to start next, 0 when there is none: jobs run in list
\* order, and none is started after a failure
nextJob(op) ==
    IF \E j \in 1 .. Len(op.jobs) : op.jobState[j] \in {"running", "failed"}
    THEN 0
    ELSE IF \A j \in 1 .. Len(op.jobs) : op.jobState[j] = "ok"
    THEN 0
    ELSE CHOOSE j \in 1 .. Len(op.jobs) :
             /\ op.jobState[j] = "idle"
             /\ \A i \in 1 .. (j - 1) : op.jobState[i] = "ok"

\* run() that puts a failed operation back to Pending
finalStatusRetry(op) ==
    IF \A j \in 1 .. Len(op.jobs) : op.jobState[j] = "ok" THEN "Success" ELSE "Pending"

\* run(): the status it ends in
finalStatus(op) ==
    IF \A j \in 1 .. Len(op.jobs) : op.jobState[j] = "ok" THEN "Success" ELSE "Error"

\* apply() that goes on after an operation that failed
passGoesOnAfterError(os, final) ==
    \E i \in 1 .. Len(os) : os[i].status = "Pending"

\* apply(): the pass goes on to the next operation when the one that ended
\* succeeded and one is left; it stops on an Error
passGoesOn(os, final) ==
    /\ final = "Success"
    /\ \E i \in 1 .. Len(os) : os[i].status = "Pending"

\* apply(): operation k ended in status final; the pass reports it, and
\* when it stops on an Error it reports what it has not run as Skipped
passReport(os, k, final) ==
    [i \in 1 .. Len(os) |->
        IF i = k THEN [os[i] EXCEPT !.status = final, !.report = final]
        ELSE IF ~passGoesOn(os, final) /\ os[i].status = "Pending"
        THEN [os[i] EXCEPT !.report = "Skipped"]
        ELSE os[i]]

\* run() that undoes the preview of an operation that failed
treeAfterRunRollback(t, op, final) ==
    IF final = "Error" THEN undo(t, op.deletedPartition) ELSE t

\* run(): the tree it leaves; it shows the outcome since preview() already
\* and is not touched, whether the jobs succeed or fail
treeAfterRun(t, op, final) == t

\* ~DeleteOperation that deletes the Partition whatever the status
destructorAlways(f, op) ==
    [f EXCEPT ![op.deletedPartition] = @ + 1]

\* DeleteOperation::~DeleteOperation: the Partition is deleted unless the
\* operation is being merged or undone (StatusNone, StatusPending)
destructor(f, op) ==
    IF op.status # "Pending" /\ op.status # "None"
    THEN [f EXCEPT ![op.deletedPartition] = @ + 1]
    ELSE f

\* apply(): the first operation not yet run, 0 when there is none
firstPending ==
    IF \E k \in 1 .. Len(ops) : ops[k].status = "Pending"
    THEN CHOOSE k \in 1 .. Len(ops) :
             /\ ops[k].status = "Pending"
             /\ \A i \in 1 .. (k - 1) : ops[i].status # "Pending"
    ELSE 0

\* the user picks a node of the tree; an ineligible one is rejected before
\* an operation exists (ValidationError)
ConstructOp(shreds, limit) ==
    \E cn \in treeNodes(T), shred \in shreds :
        /\ ~applying
        /\ Len(ops) < limit
        /\ ~unpushed
        /\ canDelete(T, cn[2])
        /\ ops' = Append(ops, DeleteOperation(cn[2].id, shred))
        /\ undone' = <<>>
        /\ UNCHANGED <<part, children, applying, device, freed, aside>>

Construct == ConstructOp(ShredActions, MaxOps)

ConstructNoShred == ConstructOp({"NoShred"}, MaxPreviews)

ConstructPlain == ConstructOp({"NoShred"}, MaxOps)

\* OperationStack::push: preview(), then the operation is Pending on the stack
Push ==
    /\ unpushed
    /\ LET t == preview(T, lastOp.deletedPartition)
       IN /\ part' = t.part
          /\ children' = t.children
    /\ ops' = [ops EXCEPT ![Len(ops)] = [@ EXCEPT !.status = "Pending", !.before = T]]
    /\ undone' = <<>>
    /\ UNCHANGED <<applying, device, freed, aside>>

\* OperationStack::pop: undo() of the last operation, which is then dropped
Pop ==
    /\ ~applying
    /\ ops # <<>>
    /\ canUndo(lastOp)
    /\ LET t == undo(T, lastOp.deletedPartition)
       IN /\ part' = t.part
          /\ children' = t.children
    /\ ops' = SubSeq(ops, 1, Len(ops) - 1)
    /\ undone' = <<lastOp>>
    /\ freed' = destructor(freed, lastOp)
    /\ UNCHANGED <<applying, device, aside>>

\* apply(): the pass over the operations not yet run begins
StartApply ==
    /\ ~applying
    /\ ~unpushed
    /\ firstPending # 0
    /\ applying' = TRUE
    /\ ops' = [k \in 1 .. Len(ops) |-> [ops[k] EXCEPT !.report = ""]]
    /\ UNCHANGED <<part, children, undone, device, freed, aside>>

\* run(): the operation becomes Running
RunStart ==
    /\ applying
    /\ \A k \in 1 .. Len(ops) : ops[k].status # "Running"
    /\ firstPending # 0
    /\ ops' = [ops EXCEPT ![firstPending].status = "Running"]
    /\ undone' = <<>>
    /\ UNCHANGED <<part, children, applying, device, freed, aside>>

\* run(): the next job starts
JobStart ==
    \E k \in 1 .. Len(ops) :
        /\ ops[k].status = "Running"
        /\ nextJob(ops[k]) # 0
        /\ ops' = [ops EXCEPT ![k].jobState[nextJob(ops[k])] = "running"]
        /\ undone' = <<>>
        /\ UNCHANGED <<part, children, applying, device, freed, aside>>

\* Job::run returns success or failure
JobFinish ==
    \E k \in 1 .. Len(ops), j \in 1 .. 2, ok \in BOOLEAN :
        /\ ops[k].status = "Running"
        /\ j <= Len(ops[k].jobs)
        /\ ops[k].jobState[j] = "running"
        /\ ops' = [ops EXCEPT ![k].jobState[j] = IF ok THEN "ok" ELSE "failed"]
        /\ device' = IF ok
                     THEN device \cup {<<ops[k].deletedPartition, ops[k].jobs[j]>>}
                     ELSE device
        /\ undone' = <<>>
        /\ UNCHANGED <<part, children, applying, freed, aside>>

\* run() returns; apply() stops on an Error and when nothing is left to run
RunEnd ==
    \E k \in 1 .. Len(ops) :
        /\ ops[k].status = "Running"
        /\ nextJob(ops[k]) = 0
        /\ \A j \in 1 .. Len(ops[k].jobs) : ops[k].jobState[j] # "running"
        /\ ops' = passReport(ops, k, finalStatus(ops[k]))
        /\ applying' = passGoesOn(ops, finalStatus(ops[k]))
        /\ LET t == treeAfterRun(T, ops[k], finalStatus(ops[k]))
           IN /\ part' = t.part
              /\ children' = t.children
        /\ undone' = <<>>
        /\ UNCHANGED <<device, freed, aside>>

\* an operation is deleted: one that has run stays in the history of the
\* stack as a destroyed one; one that was constructed and never pushed is
\* dropped (one that is Pending is deleted by Pop, after its undo())
Destroy ==
    \E k \in 1 .. Len(ops) :
        /\ ~applying
        /\ ~ops[k].destroyed
        /\ ops[k].status \in {"Success", "Error", "None"}
        /\ freed' = destructor(freed, ops[k])
        /\ ops' = IF ops[k].status \in {"Success", "Error"}
                  THEN [ops EXCEPT ![k].destroyed = TRUE]
                  ELSE SubSeq(ops, 1, Len(ops) - 1)
        /\ undone' = <<>>
        /\ UNCHANGED <<part, children, applying, device, aside>>

Next ==
    \/ Construct
    \/ Push
    \/ Pop
    \/ StartApply
    \/ RunStart
    \/ JobStart
    \/ JobFinish
    \/ RunEnd

Spec == Init /\ [][Next]_vars

\* operations that are constructed, pushed, undone, run and deleted
NextLife ==
    \/ ConstructPlain
    \/ Push
    \/ Pop
    \/ StartApply
    \/ RunStart
    \/ JobStart
    \/ JobFinish
    \/ RunEnd
    \/ Destroy

SpecLife == Init /\ [][NextLife]_vars

\* previews and undos only, on every device the slots allow
NextTree ==
    \/ ConstructNoShred
    \/ Push
    \/ Pop

SpecTree == InitTree /\ [][NextTree]_vars

-----------------------------------------------------------------------------
(* The scan at work, record by record *)

\* a record with some of its fields set to other values
withFields(rec, f) ==
    [k \in DOMAIN rec |-> IF k \in DOMAIN f THEN f[k] ELSE rec[k]]

\* what the mount table and the mount statistics may say of a device
Mounts(mp) ==
    { [mp |-> "",  valid |-> FALSE],
      [mp |-> mp,  valid |-> FALSE],
      [mp |-> mp,  valid |-> TRUE] }

\* what dumpe2fs -h may print: nothing (it failed), all three counts, or
\* all but one of them
Dumps ==
    { noOutput,
      [ran |-> TRUE, blockCount |-> 100, freeBlocks |-> 60, blockSize |-> 1024],
      [ran |-> TRUE, blockCount |-> 100, freeBlocks |-> -1, blockSize |-> 1024] }

\* a filesystem and its way to read the used capacity: ext2 with or without
\* dumpe2fs installed, another filesystem with a command of its own or with
\* libparted's resize library (built in or not)
UsedSources ==
    { [fsType |-> "Ext2", getUsed |-> "cmdSupportNone"],
      [fsType |-> "Other", getUsed |-> "cmdSupportNone"] }
    \cup { [fsType |-> "Ext2", getUsed |-> "cmdSupportFileSystem", dumpe2fs |-> d] :
              d \in Dumps }
    \cup { [fsType |-> "Other", getUsed |-> "cmdSupportFileSystem", capUsed |-> c] :
              c \in {-1, 4096} }
    \cup { [fsType |-> "Other", getUsed |-> "cmdSupportCore",
            coreUsed |-> c, fsResizeLibrary |-> l] : c \in {-1, 7}, l \in BOOLEAN }

\* a partition that is no Luks container: busy or not, its node in the mount
\* table or not
PlainProbes ==
    { [busy |-> b, rawMountPoint |-> m.mp, statValid |-> m.valid,
       statUsed |-> 5120] @@ src :
        src \in UsedSources, b \in BOOLEAN, m \in Mounts("/mnt/node") }

\* a Luks container: locked, or unlocked with its mapper device mounted or
\* not and in the mount table or not
LuksProbes ==
    { [fsType |-> "Luks", mapperOpen |-> o.open, mapperMounted |-> o.mounted,
       mapperMountPoint |-> m.mp, statValid |-> m.valid, statUsed |-> 5120,
       getUsed |-> g.getUsed, capUsed |-> g.capUsed] :
        o \in { [open |-> FALSE, mounted |-> FALSE],
                [open |-> TRUE,  mounted |-> FALSE],
                [open |-> TRUE,  mounted |-> TRUE] },
        m \in Mounts("/mnt/mapper"),
        g \in { [getUsed |-> "cmdSupportNone", capUsed |-> -1],
                [getUsed |-> "cmdSupportFileSystem", capUsed |-> -1],
                [getUsed |-> "cmdSupportFileSystem", capUsed |-> 4096] } }

\* what libparted may say of a partition's flags
FlagProbes ==
    { [pedAvailable |-> a, pedSet |-> f] : a \in SUBSET flagmap, f \in SUBSET flagmap }

\* a record of a kind the scan does not represent, placed after sector prev
unknownRecord(kind, num, prev) ==
    [rawRecord(Root, num, "plain") EXCEPT
        !.type = kind, !.start = prev + 1, !.end = prev + 1]

\* free space and metadata have no partition number; a protected partition
\* has one
UnknownKinds ==
    { [kind |-> "PED_PARTITION_FREESPACE", num |-> -1],
      [kind |-> "PED_PARTITION_METADATA", num |-> -1],
      [kind |-> "PED_PARTITION_LOGICAL|PED_PARTITION_FREESPACE", num |-> -1],
      [kind |-> "PED_PARTITION_PROTECTED", num |-> 4] }

\* the devices that are scanned record by record
ScanLayouts == {l \in PlainLayouts : l.order \in {<<>>, <<1>>, <<1, 2>>}}

\* the records are in ascending order of their start sectors
ascending(recs) ==
    \A i \in 1 .. Len(recs), j \in 1 .. Len(recs) :
        i < j => recs[i].start <= recs[j].start

\* what the backend may hand to the scan: the records of a device, one of
\* them with a filesystem, a mount state or flags of its own, or with a
\* record of an unknown kind among them
ScanInputs ==
    LET base(l) == deviceRecords(l.tops, l.order, Root, "plain")
        probes(rec) == FlagProbes \cup
                       (IF rec.type = "PED_PARTITION_EXTENDED"
                        THEN {} ELSE PlainProbes \cup LuksProbes)
        probed(l) == UNION { { [base(l) EXCEPT ![i] = withFields(@, f)] :
                                 f \in probes(base(l)[i]) } :
                             i \in 1 .. Len(base(l)) }
        mixed(l)  == UNION { { SubSeq(base(l), 1, j)
                                 \o << unknownRecord(u.kind, u.num,
                                          IF j = 0 THEN 0 ELSE base(l)[j].end) >>
                                 \o SubSeq(base(l), j + 1, Len(base(l))) :
                                 u \in UnknownKinds } :
                             j \in 0 .. Len(base(l)) }
    IN {r \in UNION {probed(l) \cup mixed(l) : l \in ScanLayouts} : ascending(r)}

InitScan ==
    \E recs \in ScanInputs :
        /\ part = emptyTable.part
        /\ children = emptyTable.children
        /\ scan = [recs |-> recs, pos |-> 1, partitions |-> <<>>, done |-> FALSE]
        /\ ops = <<>>
        /\ applying = FALSE
        /\ undone = <<>>
        /\ device = {}
        /\ freed = [p \in PartIds |-> 0]
        /\ mv = mvIdle

\* one turn of the loop: the next record is represented or skipped
ScanStep ==
    /\ scan.pos \in 1 .. Len(scan.recs)
    /\ LET rec == scan.recs[scan.pos]
           t   == scanRecord(T, rec)
       IN /\ part' = t.part
          /\ children' = t.children
          /\ scan' = [scan EXCEPT
                         !.pos = @ + 1,
                         !.partitions = IF represented(rec) THEN Append(@, rec.id)
                                        ELSE @]
    /\ UNCHANGED <<ops, applying, undone, device, freed, mv>>

\* after the loop: updateUnallocated, and the scan is done
ScanFinish ==
    /\ ~scan.done
    /\ scan.pos = Len(scan.recs) + 1
    /\ LET t == updateUnallocated(T)
       IN /\ part' = t.part
          /\ children' = t.children
    /\ scan' = [scan EXCEPT !.done = TRUE]
    /\ UNCHANGED <<ops, applying, undone, device, freed, mv>>

NextScan ==
    \/ ScanStep
    \/ ScanFinish

SpecScan == InitScan /\ [][NextScan]_vars

-----------------------------------------------------------------------------
(* MovePhysicalVolumeJob::run *)

\* the paths of the physical volumes there may be
PVPaths == {"/dev/sda1", "/dev/sdb1", "/dev/sdc1"}

\* the path lists of at most n entries; an entry may be there twice
RECURSIVE pathLists(_)
pathLists(n) ==
    IF n = 0 THEN {<<>>}
    ELSE pathLists(n - 1)
         \cup {Append(l, x) : l \in {m \in pathLists(n - 1) : Len(m) = n - 1},
                              x \in PVPaths}

\* what LvmDevice::getPVs may return: each physical volume once
PVLists == {l \in pathLists(Cardinality(PVPaths)) :
               \A i \in 1 .. Len(l), j \in 1 .. Len(l) : i # j => l[i] # l[j]}

\* the entries of a list
entries(l) == {l[i] : i \in 1 .. Len(l)}

\* run() that offers every physical volume as a destination
destinationsAll(pvs, partList) == pvs

\* run(): the physical volumes of the device, without those of partList()
destinations(pvs, partList) ==
    SelectSeq(pvs, LAMBDA x : x \notin entries(partList))

InitMove ==
    \E partList \in pathLists(MaxPartList), pvs \in PVLists :
        /\ mv = [ pc           |-> "called",
                  partList     |-> partList,
                  pvs          |-> pvs,
                  rval         |-> FALSE,
                  destinations |-> <<>>,
                  next         |-> 1,
                  moves        |-> <<>>,
                  started      |-> 0,
                  finished     |-> <<>>,
                  returned     |-> <<>> ]
        /\ part = emptyTable.part
        /\ children = emptyTable.children
        /\ ops = <<>>
        /\ applying = FALSE
        /\ undone = <<>>
        /\ device = {}
        /\ freed = [p \in PartIds |-> 0]
        /\ scan = scanIdle

\* rval = false; jobStarted; the destinations are worked out
MoveStart ==
    /\ mv.pc = "called"
    /\ mv' = [mv EXCEPT !.pc = "moving",
                        !.rval = FALSE,
                        !.started = @ + 1,
                        !.destinations = destinations(mv.pvs, mv.partList)]
    /\ UNCHANGED <<part, children, ops, applying, undone, device, freed, scan>>

\* one turn of the second loop: LvmDevice::movePV succeeds or fails, and a
\* failure breaks the loop
MovePV ==
    \E ok \in BOOLEAN :
        /\ mv.pc = "moving"
        /\ mv.next <= Len(mv.partList)
        /\ mv' = [mv EXCEPT
                     !.rval = ok,
                     !.moves = Append(@, [partPath     |-> mv.partList[mv.next],
                                          destinations |-> mv.destinations,
                                          ok           |-> ok]),
                     !.next = IF ok THEN @ + 1 ELSE Len(mv.partList) + 1]
        /\ UNCHANGED <<part, children, ops, applying, undone, device, freed, scan>>

\* after the loop: jobFinished(*report, rval); return rval
MoveFinish ==
    /\ mv.pc = "moving"
    /\ mv.next > Len(mv.partList)
    /\ mv' = [mv EXCEPT !.pc = "returned",
                        !.finished = Append(@, mv.rval),
                        !.returned = <<mv.rval>>]
    /\ UNCHANGED <<part, children, ops, applying, undone, device, freed, scan>>

NextMove ==
    \/ MoveStart
    \/ MovePV
    \/ MoveFinish

SpecMove == InitMove /\ [][NextMove]_vars

-----------------------------------------------------------------------------
(* Properties *)

\* the nodes of the tree, without their containers
nodes == {cn[2] : cn \in treeNodes(T)}

isMounted(n) == ~isUnallocated(n) /\ part[n.id].mounted

isExtended(n) == "Extended" \in rolesOf(T, n)

hasLuksRole(n) == "Luks" \in rolesOf(T, n)

\* an Extended partition one of whose children is a real partition
hasRealChild(n) ==
    /\ isExtended(n)
    /\ \E i \in 1 .. Len(children[n.id]) : ~isUnallocated(children[n.id][i])

\* an encrypted container that is locked: it has no open mapper device
isLockedLuks(n) == hasLuksRole(n) /\ ~part[n.id].cryptOpen

fileSystemJob(shred) ==
    CASE shred = "NoShred"   -> "DeleteFileSystemJob"
      [] shred = "ZeroShred" -> "ShredFileSystemJob(zero)"
      [] OTHER               -> "ShredFileSystemJob(random)"

\* C2: every DeleteOperation has exactly two jobs, the filesystem-destroy job
\* (the zero or random shred job when a shred action is requested) first and
\* the DeletePartitionJob second, and the DeletePartitionJob is never started
\* before the filesystem job has finished
C2_JobOrder ==
    \A k \in 1 .. Len(ops) :
        /\ Len(ops[k].jobs) = 2
        /\ ops[k].jobs[1] = fileSystemJob(ops[k].shredAction)
        /\ ops[k].jobs[2] = "DeletePartitionJob"
        /\ \A i, j \in 1 .. Len(ops[k].jobs) :
               (/\ ops[k].jobs[j] = "DeletePartitionJob"
                /\ ops[k].jobs[i] # "DeletePartitionJob"
                /\ ops[k].jobState[j] # "idle")
                   => ops[k].jobState[i] \in {"ok", "failed"}

\* a shredding operation whose DeletePartitionJob is running
C2_Witness ==
    \E k \in 1 .. Len(ops) :
        /\ ops[k].shredAction = "RandomShred"
        /\ ops[k].status = "Running"
        /\ ops[k].jobState = <<"ok", "running">>

\* the Logical partitions an Extended partition holds
logicalsOf(e) == {children[e][i].id : i \in 1 .. Len(children[e])} \ {Root}

\* C3: undoing the deletion of a Logical partition while it is Pending leaves
\* the tree as it was before the preview: the same nodes in the same positions
\* and sector ranges, every Partition with the number it had
C3_UndoRestores ==
    (undone # <<>> /\ "Logical" \in part[undone[1].deletedPartition].roles)
        => T = undone[1].before

\* the deletion of a Logical partition was undone, and a sibling that the
\* preview had renumbered is back in the tree next to it
C3_Witness ==
    /\ undone # <<>>
    /\ "Logical" \in part[undone[1].deletedPartition].roles
    /\ \E q \in logicalsOf(part[undone[1].deletedPartition].parent) :
           part[q].number > part[undone[1].deletedPartition].number

\* C4: after every preview() and undo(), the Logical partitions of each
\* Extended partition of the tree carry the numbers 5, 6, ... without a gap
\* and without a duplicate
C4_Contiguous ==
    \A e \in containers(T) \ {Root} :
        /\ {part[q].number : q \in logicalsOf(e)} =
               FirstLogicalNumber .. (FirstLogicalNumber + Cardinality(logicalsOf(e)) - 1)
        /\ \A q, r \in logicalsOf(e) : part[q].number = part[r].number => q = r

\* a Logical partition is deleted (Pending) and a sibling now carries the
\* number it had
C4_Witness ==
    \E k \in 1 .. Len(ops) :
        /\ ops[k].status = "Pending"
        /\ "Logical" \in part[ops[k].deletedPartition].roles
        /\ inTree(T, part[ops[k].deletedPartition].parent)
        /\ \E q \in logicalsOf(part[ops[k].deletedPartition].parent) :
               /\ part[q].number = part[ops[k].deletedPartition].number
               /\ ops[k].before.part[q].number = part[q].number + 1

\* the scenario: the Extended partition [100000, 500000] with Logical #5
\* [100000, 200000] and Logical #6 [200001, 300000] and nothing else, the
\* deletion of Logical #5 previewed
scenarioPreviewed ==
    /\ DOMAIN part = {ExtId, LogId(1), LogId(2)}
    /\ Len(ops) = 1
    /\ ops[1].status = "Pending"
    /\ ops[1].deletedPartition = LogId(1)
    /\ ops[1].before.part[LogId(1)].number = 5
    /\ ops[1].before.part[LogId(2)].number = 6

\* C5 as stated: the former #6 is #5 and the Extended partition holds an
\* Unallocated node [100000, 300000]
C5_AsStated ==
    scenarioPreviewed =>
        /\ part[LogId(2)].number = 5
        /\ \E i \in 1 .. Len(children[ExtId]) :
               children[ExtId][i] = unallocatedNode(100000, 300000)

\* C5, amended: the former #6 is #5 and keeps [200001, 300000]; the gap the
\* deletion leaves is the Unallocated node [100000, 200000], and the free
\* space behind the former #6 is the Unallocated node [300001, 500000]
C5_Scenario ==
    scenarioPreviewed =>
        /\ part[LogId(2)].number = 5
        /\ children[ExtId] = << unallocatedNode(100000, 200000),
                                [id |-> LogId(2), first |-> 200001, last |-> 300000],
                                unallocatedNode(300001, 500000) >>

C5_Witness == scenarioPreviewed

\* C6: the children of the partition table cover [firstUsableSector,
\* lastUsableSector] completely, without overlap and without leaving it
C6_Coverage ==
    LET ch == children[Root]
    IN /\ Len(ch) >= 1
       /\ ch[1].first = firstUsableSector
       /\ ch[Len(ch)].last = lastUsableSector
       /\ \A i \in 1 .. Len(ch) : ch[i].first <= ch[i].last
       /\ \A i \in 1 .. (Len(ch) - 1) : ch[i + 1].first = ch[i].last + 1

\* a deletion was undone while another one is previewed: the table holds
\* real partitions between several Unallocated nodes
C6_Witness ==
    /\ undone # <<>>
    /\ \E k \in 1 .. Len(ops) : ops[k].status = "Pending"
    /\ Cardinality({i \in 1 .. Len(children[Root]) : isUnallocated(children[Root][i])}) >= 2
    /\ Cardinality({i \in 1 .. Len(children[Root]) : ~isUnallocated(children[Root][i])}) >= 2

\* C7: no Partition is in the tree while a DeleteOperation owns it for a
\* possible undo, and no two operations have the same Partition to delete
C7_Ownership ==
    /\ \A k \in 1 .. Len(ops) :
           ops[k].status = "Pending" => ops[k].deletedPartition \notin treeParts(T)
    /\ \A k, m \in 1 .. Len(ops) :
           ops[k].deletedPartition = ops[m].deletedPartition => k = m

\* two operations own their partitions, both out of the tree
C7_Witness ==
    /\ Len(ops) = 2
    /\ ops[1].status = "Pending"
    /\ ops[2].status = "Pending"
    /\ treeParts(T) # {}

\* the steps Operation::OperationStatus may take
statusStep(a, b) ==
    \/ a = b
    \/ a = "None" /\ b = "Pending"
    \/ a = "Pending" /\ b = "Running"
    \/ a = "Running" /\ b \in {"Success", "Warning", "Error"}

\* C8: an operation starts at None and its status moves only along
\* None -> Pending -> Running -> {Success, Warning, Error}
C8_StatusOrder ==
    [][\A k \in 1 .. Len(ops') :
           IF k <= Len(ops) THEN statusStep(ops[k].status, ops'[k].status)
           ELSE ops'[k].status = "None"]_vars

\* one operation ended in Success and the next one in Error
C8_Witness ==
    /\ Len(ops) = 2
    /\ ops[1].status = "Success"
    /\ ops[2].status = "Error"

\* an operation that was committed: it is Running or has ended
committed(op) == op.status \in {"Running", "Success", "Warning", "Error"}

C10_RunJobs ==
    \A k \in 1 .. Len(ops) :
        LET op    == ops[k]
            allOk == \A j \in 1 .. Len(op.jobs) : op.jobState[j] = "ok"
        IN /\ \A j \in 1 .. Len(op.jobs) :
                  op.jobState[j] # "idle" =>
                      \A i \in 1 .. (j - 1) : op.jobState[i] = "ok"
           /\ op.status \in {"None", "Pending"} =>
                  \A j \in 1 .. Len(op.jobs) : op.jobState[j] = "idle"
           /\ op.status \in {"Success", "Warning", "Error"} =>
                  /\ \A j \in 1 .. Len(op.jobs) : op.jobState[j] # "running"
                  /\ op.status = "Success" <=> allOk
                  /\ op.status = "Error" <=> ~allOk

\* an operation ended in Error with its first job failed and its second job
\* never started
C10_Witness ==
    \E k \in 1 .. Len(ops) :
        /\ ops[k].status = "Error"
        /\ ops[k].jobState = <<"failed", "idle">>

\* the operations the apply pass at hand has reported on
reported(os) == {i \in 1 .. Len(os) : os[i].report # ""}

\* the operation has begun: it is Running, has ended, or a job of it has run
begun(op) ==
    \/ op.status \in {"Running", "Success", "Error"}
    \/ \E j \in 1 .. Len(op.jobs) : op.jobState[j] # "idle"

\* the operation has fully finished: it has ended and no job of it is running
finished(op) ==
    /\ op.status \in {"Success", "Error"}
    /\ \A j \in 1 .. Len(op.jobs) : op.jobState[j] # "running"

\* the outcome of a pass in which operation k is the first to fail
passOutcome(os, k) ==
    /\ os[k].status = "Error"
    /\ \A i \in reported(os) :
           /\ i < k => os[i].report = "Success" /\ os[i].status = "Success"
           /\ i > k => os[i].report = "Skipped"
    /\ \A i \in (k + 1) .. Len(os) :
           /\ i \in reported(os)
           /\ os[i].status = "Pending"
           /\ \A j \in 1 .. Len(os[i].jobs) : os[i].jobState[j] = "idle"

\* C11: when an apply pass ends and operation k is the first it reports as
\* failed, the operations of the pass before k are Success, k is Error, and
\* every operation after k is reported Skipped, is still Pending and has run
\* no job; and at any time an operation that has begun is preceded only by
\* operations that have fully finished
C11_StopOnError ==
    [][/\ (applying /\ ~applying') =>
            \A k \in 1 .. Len(ops') :
                (/\ ops'[k].report = "Error"
                 /\ \A i \in 1 .. (k - 1) : ops'[i].report # "Error")
                => passOutcome(ops', k)
       /\ \A k \in 1 .. Len(ops'), i \in 1 .. Len(ops') :
            (i < k /\ begun(ops'[k])) => finished(ops'[i])]_vars

\* a pass of two operations has ended: the first failed, the second was
\* skipped
C11_Witness ==
    /\ ~applying
    /\ Len(ops) = 2
    /\ ops[1].report = "Error"
    /\ ops[1].status = "Error"
    /\ ops[2].report = "Skipped"
    /\ ops[2].status = "Pending"

\* run() of the operation ends in this step, its first job done and its
\* second job failed
secondJobFailed(k) ==
    /\ k <= Len(ops')
    /\ ops[k].status = "Running"
    /\ ops'[k].status = "Error"
    /\ ops[k].jobState = <<"ok", "failed">>

\* C12: when run() of a committed operation ends with its first job done
\* and its second job failed, what the first job did to the device is still
\* applied and the tree is the one the last preview() produced; no step of
\* an apply pass changes the tree, and nothing done to the device is ever
\* taken back
C12_NoRollback ==
    [][/\ (applying \/ applying') => (part' = part /\ children' = children)
       /\ device \subseteq device'
       /\ \A k \in 1 .. Len(ops) :
            secondJobFailed(k) =>
                /\ <<ops[k].deletedPartition, ops[k].jobs[1]>> \in device'
                /\ <<ops[k].deletedPartition, ops[k].jobs[2]>> \notin device'
                /\ [part |-> part', children |-> children']
                     = preview(ops'[Len(ops')].before,
                               ops'[Len(ops')].deletedPartition)]_vars

\* an operation has ended in Error after its first job was done and its
\* second job failed, and the first job's effect is on the device
C12_Witness ==
    \E k \in 1 .. Len(ops) :
        /\ ops[k].status = "Error"
        /\ ops[k].jobState = <<"ok", "failed">>
        /\ <<ops[k].deletedPartition, ops[k].jobs[1]>> \in device
        /\ ops[k].deletedPartition \notin {n.id : n \in nodes}

\* the operations whose destructor runs in this step: the one a shorter
\* stack has dropped, or the ones marked destroyed
destructed ==
    IF Len(ops') < Len(ops) THEN {Len(ops)}
    ELSE {k \in 1 .. Len(ops) : ~ops[k].destroyed /\ ops'[k].destroyed}

\* C17: the destructor of a DeleteOperation deletes its Partition exactly
\* when the status is neither None nor Pending, and nothing else deletes a
\* Partition; whatever previews, undos, runs and destructions have happened,
\* no Partition that is in the tree has been deleted and none has been
\* deleted twice
C17_Destructor ==
    [][/\ \A k \in destructed :
            freed'[ops[k].deletedPartition] =
                freed[ops[k].deletedPartition]
                + (IF ops[k].status \notin {"None", "Pending"} THEN 1 ELSE 0)
       /\ \A q \in PartIds :
            (q \notin {ops[k].deletedPartition : k \in destructed})
                => freed'[q] = freed[q]
       /\ \A q \in PartIds :
            /\ freed'[q] <= 1
            /\ freed'[q] > 0 =>
                  q \notin {cn[2].id : cn \in
                               treeNodes([part |-> part', children |-> children'])}
      ]_vars

\* an operation that ran was destroyed and its Partition deleted, and an
\* operation that was undone was destroyed and its Partition is in the tree,
\* not deleted
C17_Witness ==
    /\ \E k \in 1 .. Len(ops) :
          /\ ops[k].destroyed
          /\ freed[ops[k].deletedPartition] = 1
    /\ undone # <<>>
    /\ freed[undone[1].deletedPartition] = 0
    /\ undone[1].deletedPartition \in {n.id : n \in nodes}

\* C13, as the claim states it: a scanned Luks container that is unlocked
\* has its mounted flag, its mount point and its used capacity read from the
\* mapper device and none of them from the partition's own node; the inner
\* filesystem is loaded only when the container is unlocked; a locked
\* container is not mounted
C13_AsStated ==
    \A q \in DOMAIN part :
        part[q].fsType = "Luks" =>
            /\ part[q].cryptOpen =>
                  /\ part[q].mountedOf = "mapper"
                  /\ part[q].mountPointOf = "mapper"
                  /\ part[q].usedOf # "node"
            /\ part[q].innerLoaded => part[q].cryptOpen
            /\ ~part[q].cryptOpen => ~part[q].mounted

\* the record a scanned Partition was made from
recordOf(q) ==
    scan.recs[CHOOSE i \in 1 .. Len(scan.recs) :
                  scan.recs[i].id = q /\ represented(scan.recs[i])]

\* the mount statistics yield a value for the partition
statsKnown(q) ==
    part[q].mounted /\ part[q].mountPoint # "" /\ recordOf(q).statValid

\* the filesystem has a way to read its used capacity, and what it returns,
\* in sectors; -1 when it has none or the answer is unknown
capabilitySectors(q) ==
    LET rec == recordOf(q)
    IN IF rec.getUsed = "cmdSupportFileSystem" /\ readUsedCapacity(rec) >= 0
       THEN readUsedCapacity(rec) \div logicalSectorSize
       ELSE IF rec.getUsed = "cmdSupportCore" /\ rec.fsResizeLibrary
               /\ rec.coreUsed >= 0
       THEN rec.coreUsed
       ELSE -1

\* C14, as the claim states it: a scanned partition's used capacity is the
\* one of the mount statistics when the partition is mounted and they are
\* known, else the one the filesystem's own capability returns, and it is
\* -1 whenever neither yields a value, also when the capability is there
\* and returns unknown
C14_AsStated ==
    \A q \in DOMAIN part :
        part[q].sectorsUsed =
            IF statsKnown(q)
            THEN recordOf(q).statUsed \div logicalSectorSize
            ELSE capabilitySectors(q)

\* the places of Partition q in the tree: container and position
placesOf(q) ==
    UNION { { <<c, i>> : i \in {j \in 1 .. Len(children[c]) : children[c][j].id = q} } :
            c \in DOMAIN children }

\* the places of Partition q in the list of partitions the scan keeps
listedAt(q) == {i \in 1 .. Len(scan.partitions) : scan.partitions[i] = q}

\* the record is of a kind the tree can represent
knownKind(rec) ==
    rec.type \in {"PED_PARTITION_NORMAL", "PED_PARTITION_EXTENDED",
                  "PED_PARTITION_LOGICAL"}

\* the Extended partitions of other records whose range contains the start
\* sector of record i
enclosing(i) ==
    { scan.recs[j].id : j \in
        { k \in 1 .. Len(scan.recs) :
            /\ k # i
            /\ scan.recs[k].type = "PED_PARTITION_EXTENDED"
            /\ scan.recs[k].start <= scan.recs[i].start
            /\ scan.recs[i].start <= scan.recs[k].end } }

\* C15: of the records the loop has gone through, in ascending order of
\* start sectors, each one of the normal, extended or logical kind is once
\* in the tree and once in the list of partitions, as a child of the Extended
\* partition whose range contains its start sector, or of the table when
\* there is none; a record of another kind is in neither, and the loop goes
\* on after it
C15_Represented ==
    /\ ascending(scan.recs)
    /\ \A i \in 1 .. (scan.pos - 1) :
        LET rec == scan.recs[i]
        IN IF knownKind(rec)
           THEN /\ rec.id \in DOMAIN part
                /\ Cardinality(placesOf(rec.id)) = 1
                /\ Cardinality(listedAt(rec.id)) = 1
                /\ \A pl \in placesOf(rec.id) :
                      /\ pl[1] = part[rec.id].parent
                      /\ IF enclosing(i) = {} THEN pl[1] = Root
                         ELSE pl[1] \in enclosing(i)
           ELSE /\ rec.id \notin DOMAIN part
                /\ listedAt(rec.id) = {}
    /\ Cardinality(DOMAIN part) = Len(scan.partitions)
    /\ Len(scan.partitions) =
         Cardinality({i \in 1 .. (scan.pos - 1) : knownKind(scan.recs[i])})

\* a scan is done that skipped a record of an unknown kind, went on to
\* represent records after it, and put a Logical partition into the Extended
\* one
C15_Witness ==
    /\ scan.done
    /\ scan.recs # <<>>
    /\ \E i \in 1 .. Len(scan.recs), j \in 1 .. Len(scan.recs) :
          /\ i < j
          /\ ~knownKind(scan.recs[i])
          /\ scan.recs[j].id \in DOMAIN part
    /\ \E q \in DOMAIN part : part[q].parent = ExtId /\ placesOf(q) # {}

\* C16, as the claim states it: the Hidden flag of a scanned Extended
\* partition is neither among its available flags nor among its active
\* flags, and the active flags of every scanned partition are among its
\* available flags
C16_AsStated ==
    \A q \in DOMAIN part :
        /\ "Extended" \in part[q].roles =>
              /\ "FlagHidden" \notin part[q].availableFlags
              /\ "FlagHidden" \notin part[q].activeFlags
        /\ part[q].activeFlags \subseteq part[q].availableFlags

\* every listed volume was moved successfully
allMoved ==
    /\ Len(mv.moves) = Len(mv.partList)
    /\ \A k \in 1 .. Len(mv.moves) : mv.moves[k].ok

\* what run() does on the way, whatever it returns: the moves are those of
\* the list, in its order, none after one that failed, none with a listed
\* volume among its destinations; jobStarted is called once, at the start,
\* and jobFinished once, at the end, with the value run() returns
movesInOrder ==
    /\ Len(mv.moves) <= Len(mv.partList)
    /\ \A k \in 1 .. Len(mv.moves) :
          /\ mv.moves[k].partPath = mv.partList[k]
          /\ k < Len(mv.moves) => mv.moves[k].ok
          /\ entries(mv.moves[k].destinations) \cap entries(mv.partList) = {}
          /\ entries(mv.moves[k].destinations) = entries(mv.pvs) \ entries(mv.partList)
    /\ mv.started = (IF mv.pc = "called" THEN 0 ELSE 1)
    /\ Len(mv.finished) = (IF mv.pc = "returned" THEN 1 ELSE 0)
    /\ mv.pc = "returned" =>
          /\ mv.finished = mv.returned
          /\ ~allMoved => ~mv.moves[Len(mv.moves)].ok

\* C18, as the claim states it: run() returns success exactly when every
\* listed volume was moved successfully
C18_AsStated ==
    mv.pc # "idle" =>
        /\ movesInOrder
        /\ mv.pc = "returned" => (mv.returned[1] <=> allMoved)

\* C18: run() moves the listed volumes in the order of the list, attempts
\* no move after one that failed, offers no listed volume as a destination,
\* calls jobStarted and jobFinished once each, and returns success exactly
\* when the list is not empty and every listed volume was moved successfully
C18_Run ==
    mv.pc # "idle" =>
        /\ movesInOrder
        /\ mv.pc = "returned" =>
              (mv.returned[1] <=> (mv.partList # <<>> /\ allMoved))

\* run() has returned failure after it moved the first of two listed
\* volumes and failed to move the second, a listed volume being one of the
\* device's physical volumes
C18_Witness ==
    /\ mv.pc = "returned"
    /\ Len(mv.partList) = 2
    /\ Len(mv.moves) = 2
    /\ mv.moves[1].ok
    /\ ~mv.moves[2].ok
    /\ mv.returned = <<FALSE>>
    /\ entries(mv.partList) \cap entries(mv.pvs) # {}
    /\ mv.moves[2].destinations # <<>>

====
